---- MODULE Spec2Model ----
(***************************************************************************)
(* Model of django-musette's publication / notification pipeline:          *)
(*   NewTopicView.post    (src/musette/views.py 356-420)                   *)
(*   NewCommentView.post  (src/musette/views.py 550-647)                   *)
(* Each request is a process; its record holds the handler's local         *)
(* variables and its position (pc).  Every call that can raise (ORM save,  *)
(* send_mail with fail_silently=False, redis publish) has a failing        *)
(* branch; the handlers contain no try/except around them, so a raise ends *)
(* the request with an error response.                                     *)
(***************************************************************************)
EXTENDS Integers, Sequences, FiniteSets, TLC

\* ------------------------------------------------------------- bounds
NUsers == 4
MaxComments == 3
MaxTopics == 1
MaxModerators == 2
MaxRows == 2

Users == 1..NUsers
\* an idtopic of the URL: an existing one or one that matches no Topic row
UrlTopicIds == 1..(MaxTopics + 1)
\* the NewCommentView.post requests that can be in flight together
CRuns == {"first", "second"}

\* Python's None, as stored in user_original_topic (views.py 600)
None == 0

VARIABLES
    forum,          \* the Forum row: is_moderate, moderators
    email_from,     \* settings.EMAIL_MUSETTE is truthy
    topics,         \* Topic table, in creation order
    comments,       \* Comment table, in creation order
    notifications,  \* Notification table, in creation order
    last_idcomment, \* the Comment table's auto-increment counter
    tr,             \* the NewTopicView.post request in flight
    cr              \* the NewCommentView.post requests, one record per request

vars == <<forum, email_from, topics, comments, notifications, last_idcomment,
          tr, cr>>

\* ------------------------------------------------------------ helpers
\* The e-mail address of a user (User.email): one address per user.
UserEmail(u) == [addr |-> u]

\* One entry of a request's effect log: what the handler did, in order.
Effect(ev, ids, to, ok) == [ev |-> ev, ids |-> ids, to |-> to, ok |-> ok]

\* x in lst, for a Python list
InList(x, lst) == \E i \in 1..Len(lst) : lst[i] = x

\* get_object_or_404(models.Topic, idtopic=idtopic)
TopicExists(t) == \E i \in 1..Len(topics) : topics[i].idtopic = t
GetTopic(t) == topics[CHOOSE i \in 1..Len(topics) : topics[i].idtopic = t]

IdleTopicRun ==
    [pc |-> "idle", user |-> None, moderate |-> FALSE, pending |-> <<>>,
     response |-> "none", log |-> <<>>]

IdleCommentRun ==
    [pc |-> "idle", poster |-> None, idtopic |-> 0, author |-> None,
     idcomment |-> 0, lista_us |-> <<>>, lista_email |-> <<>>,
     user_original_topic |-> None, idx |-> 0,
     response |-> "none", log |-> <<>>]

\* forum.moderators.all(), in primary-key order
RECURSIVE SetToSeq(_)
SetToSeq(S) ==
    IF S = {} THEN <<>>
    ELSE LET m == CHOOSE x \in S : \A y \in S : x <= y
         IN <<m>> \o SetToSeq(S \ {m})

\* -------------------------------------------------------------- Init
Init ==
    /\ forum \in [is_moderate : BOOLEAN,
                  moderators : {1..k : k \in 0..MaxModerators}]
    /\ email_from \in BOOLEAN
    /\ topics = <<>>
    /\ comments = <<>>
    /\ notifications = <<>>
    /\ last_idcomment = 0
    /\ tr = IdleTopicRun
    /\ cr = [r \in CRuns |-> IdleCommentRun]

Resting(run) == run.pc \in {"idle", "done"}

\* No request is being handled.
Quiet == Resting(tr) /\ \A r \in CRuns : Resting(cr[r])

\* ------------------------------------------- NewTopicView.post (356-420)
db == <<topics, comments, notifications, last_idcomment>>
settings == <<forum, email_from>>

\* Lines 382-409 with the moderator test dropped: every topic is published.
ModerateAlways(u) == TRUE

\* Lines 382-409: the moderation decision and the moderators to alert.
ModerateFlag(u) == IF forum.is_moderate THEN u \in forum.moderators ELSE TRUE

ModeratorsToAlert(u) ==
    IF forum.is_moderate /\ ~(u \in forum.moderators)
    THEN SetToSeq(forum.moderators)
    ELSE <<>>

\* Lines 358-365: form validation and get_object_or_404(models.Forum, ...),
\* then the moderation decision of lines 382-389 and 408-409.
TopicReceive(u, valid, forum_found) ==
    /\ Resting(tr)
    /\ Len(topics) < MaxTopics
    /\ tr' = IF ~valid
             THEN [IdleTopicRun EXCEPT !.pc = "done",
                                       !.response = "form_invalid"]
             ELSE IF ~forum_found
             THEN [IdleTopicRun EXCEPT !.pc = "done",
                                       !.response = "not_found"]
             ELSE [IdleTopicRun EXCEPT
                     !.pc = "alert", !.user = u,
                     !.moderate = ModerateFlag(u),
                     !.pending = ModeratorsToAlert(u),
                     !.log = <<Effect("decided", <<>>, <<>>, TRUE)>>]
    /\ UNCHANGED <<db, settings, cr>>

\* Lines 391-407, one iteration: send_mail to the next moderator succeeds,
\* or is not attempted because settings.EMAIL_MUSETTE is empty (line 403).
TopicAlertModerator ==
    /\ tr.pc = "alert"
    /\ tr.pending # <<>>
    /\ tr' = [tr EXCEPT
                !.pending = Tail(tr.pending),
                !.log = IF email_from
                        THEN Append(tr.log,
                                 Effect("mail", <<>>,
                                        <<UserEmail(Head(tr.pending))>>, TRUE))
                        ELSE tr.log]
    /\ UNCHANGED <<db, settings, cr>>

\* Lines 404-407: send_mail(..., fail_silently=False) raises; nothing in the
\* handler catches it, so the request ends before obj.save() (line 412).
TopicAlertFails ==
    /\ tr.pc = "alert"
    /\ tr.pending # <<>>
    /\ email_from
    /\ tr' = [tr EXCEPT
                !.pc = "done",
                !.response = "error",
                !.log = Append(tr.log,
                            Effect("mail", <<>>,
                                   <<UserEmail(Head(tr.pending))>>, FALSE))]
    /\ UNCHANGED <<db, settings, cr>>

\* Lines 411-417: obj.save(), messages.success, form_valid.
TopicSave ==
    /\ tr.pc = "alert"
    /\ tr.pending = <<>>
    /\ topics' = Append(topics, [idtopic |-> Len(topics) + 1,
                                 user |-> tr.user,
                                 moderate |-> tr.moderate])
    /\ tr' = [tr EXCEPT
                !.pc = "done",
                !.response = "created",
                !.log = Append(tr.log,
                            Effect("persisted", <<Len(topics) + 1>>, <<>>, TRUE))]
    /\ UNCHANGED <<comments, notifications, last_idcomment, settings, cr>>

\* Line 412: obj.save() raises.
TopicSaveFails ==
    /\ tr.pc = "alert"
    /\ tr.pending = <<>>
    /\ tr' = [tr EXCEPT !.pc = "done", !.response = "error"]
    /\ UNCHANGED <<db, settings, cr>>

\* ----------------------------------------- NewCommentView.post (550-647)
\* utils.get_users_topic(topic, myuser): the authors of the topic's
\* comments, in creation order, each once, without the posting user.
RECURSIVE ScanCommentUsers(_, _, _, _)
ScanCommentUsers(cs, idtopic, myuser, acc) ==
    IF cs = <<>> THEN acc
    ELSE LET c == Head(cs)
             take == /\ c.topic = idtopic
                     /\ c.user # myuser
                     /\ ~InList(c.user, acc)
         IN ScanCommentUsers(Tail(cs), idtopic, myuser,
                             IF take THEN Append(acc, c.user) ELSE acc)

get_users_topic(idtopic, myuser) ==
    ScanCommentUsers(comments, idtopic, myuser, <<>>)

\* Line 596 without its membership test: the author is always added.
AuthorAlwaysAdded(author, lista_us) == TRUE

\* Line 596: the topic's author is added when absent from lista_us.
AuthorAbsent(author, lista_us) == ~InList(author, lista_us)

\* Lines 589-600: lista_us, lista_email and user_original_topic after the
\* author-inclusion step.
ResolveRecipients(run) ==
    LET lista == get_users_topic(run.idtopic, run.poster)
    IN IF AuthorAbsent(run.author, lista)
       THEN [run EXCEPT !.lista_us = Append(lista, run.author),
                        !.lista_email = <<UserEmail(run.author)>>,
                        !.user_original_topic = run.author]
       ELSE [run EXCEPT !.lista_us = lista,
                        !.lista_email = <<>>,
                        !.user_original_topic = None]

\* Line 603: the condition under which the loop body writes a row.
WriteGuard(run) == run.user_original_topic # run.poster

\* Lines 604-608: the Notification row of one recipient.
NotificationRow(user, idcomment) ==
    [iduser |-> user, is_view |-> FALSE, idobject |-> idcomment,
     is_topic |-> FALSE, is_comment |-> TRUE]

\* The stages with r.publish moved ahead of send_mail.
StagePublishFirst(stage) ==
    CASE stage = "save" -> "resolve"
      [] stage = "resolve" -> "notify"
      [] stage = "notify" -> "publish"
      [] stage = "publish" -> "mail"
      [] stage = "mail" -> "respond"

\* The order of the handler's stages after the form is accepted:
\* obj.save() (571), get_users_topic and author inclusion (589-600), the
\* Notification loop (602-609), send_mail (620-624), r.publish (641),
\* messages.success and the redirect (643-644).
StageAfter(stage) ==
    CASE stage = "save" -> "resolve"
      [] stage = "resolve" -> "notify"
      [] stage = "notify" -> "mail"
      [] stage = "mail" -> "publish"
      [] stage = "publish" -> "respond"

\* Comments saved or about to be saved: the cap that keeps the model finite.
CommentsInProgress ==
    Len(comments) + Cardinality({r \in CRuns : cr[r].pc = "save"})

\* Lines 552-569: form validation, get_object_or_404(models.Topic, ...).
CommentReceive(r, u, t, valid) ==
    /\ Resting(cr[r])
    /\ CommentsInProgress < MaxComments
    /\ cr' = [cr EXCEPT ![r] =
                IF ~valid
                THEN [IdleCommentRun EXCEPT !.pc = "done",
                                            !.response = "field_required"]
                ELSE IF ~TopicExists(t)
                THEN [IdleCommentRun EXCEPT !.pc = "done",
                                            !.response = "not_found"]
                ELSE [IdleCommentRun EXCEPT !.pc = "save", !.poster = u,
                                            !.idtopic = t,
                                            !.author = GetTopic(t).user]]
    /\ UNCHANGED <<db, settings, tr>>

\* Line 571: obj.save().
CommentSave(r) ==
    /\ cr[r].pc = "save"
    /\ last_idcomment' = last_idcomment + 1
    /\ comments' = Append(comments, [idcomment |-> last_idcomment + 1,
                                     user |-> cr[r].poster,
                                     topic |-> cr[r].idtopic])
    /\ cr' = [cr EXCEPT ![r] =
                [@ EXCEPT !.pc = StageAfter("save"),
                          !.idcomment = last_idcomment + 1,
                          !.log = Append(@, Effect("persisted",
                                     <<last_idcomment + 1>>, <<>>, TRUE))]]
    /\ UNCHANGED <<topics, notifications, settings, tr>>

\* Line 571: obj.save() raises.
CommentSaveFails(r) ==
    /\ cr[r].pc = "save"
    /\ cr' = [cr EXCEPT ![r] = [@ EXCEPT !.pc = "done", !.response = "error"]]
    /\ UNCHANGED <<db, settings, tr>>

\* Lines 589-600: read the topic's comments and resolve the recipients.
CommentResolve(r) ==
    /\ cr[r].pc = "resolve"
    /\ cr' = [cr EXCEPT ![r] =
                LET run == ResolveRecipients(cr[r])
                IN [run EXCEPT !.pc = StageAfter("resolve"),
                               !.idx = 1,
                               !.log = Append(@, Effect("resolved",
                                          run.lista_us, run.lista_email, TRUE))]]
    /\ UNCHANGED <<db, settings, tr>>

\* Lines 602-609, one iteration whose guard (603) holds: the row is saved.
CommentNotify(r) ==
    /\ cr[r].pc = "notify"
    /\ cr[r].idx <= Len(cr[r].lista_us)
    /\ WriteGuard(cr[r])
    /\ notifications' = Append(notifications,
            NotificationRow(cr[r].lista_us[cr[r].idx], cr[r].idcomment))
    /\ cr' = [cr EXCEPT ![r] =
                [@ EXCEPT !.idx = @ + 1,
                          !.log = Append(@, Effect("row",
                                     <<cr[r].lista_us[cr[r].idx]>>, <<>>, TRUE))]]
    /\ UNCHANGED <<topics, comments, last_idcomment, settings, tr>>

\* Line 609: notification.save() raises.
CommentNotifyFails(r) ==
    /\ cr[r].pc = "notify"
    /\ cr[r].idx <= Len(cr[r].lista_us)
    /\ WriteGuard(cr[r])
    /\ cr' = [cr EXCEPT ![r] =
                [@ EXCEPT !.pc = "done",
                          !.response = "error",
                          !.log = Append(@, Effect("row",
                                     <<cr[r].lista_us[cr[r].idx]>>, <<>>, FALSE))]]
    /\ UNCHANGED <<db, settings, tr>>

\* Lines 602-603: the loop ends, or its guard is false for every iteration.
CommentNotifyEnd(r) ==
    /\ cr[r].pc = "notify"
    /\ \/ cr[r].idx > Len(cr[r].lista_us)
       \/ ~WriteGuard(cr[r])
    /\ cr' = [cr EXCEPT ![r] = [@ EXCEPT !.pc = StageAfter("notify")]]
    /\ UNCHANGED <<db, settings, tr>>

\* send_mail reaching the transport whatever the recipient list holds.
MailAttemptedAnyList(run) == email_from

\* django.core.mail.send_mail hands the message to the transport only when
\* it has a recipient (EmailMessage.send returns 0 otherwise); line 620
\* skips the call when settings.EMAIL_MUSETTE is empty.
MailAttempted(run) == email_from /\ run.lista_email # <<>>

\* Lines 611-624: send_mail succeeds, or no send is attempted.
CommentMail(r) ==
    /\ cr[r].pc = "mail"
    /\ cr' = [cr EXCEPT ![r] =
                [@ EXCEPT !.pc = StageAfter("mail"),
                          !.log = IF MailAttempted(cr[r])
                                  THEN Append(@, Effect("mail", <<>>,
                                                  cr[r].lista_email, TRUE))
                                  ELSE @]]
    /\ UNCHANGED <<db, settings, tr>>

\* Lines 621-624: send_mail(..., fail_silently=False) raises.
CommentMailFails(r) ==
    /\ cr[r].pc = "mail"
    /\ MailAttempted(cr[r])
    /\ cr' = [cr EXCEPT ![r] =
                [@ EXCEPT !.pc = "done",
                          !.response = "error",
                          !.log = Append(@, Effect("mail", <<>>,
                                          cr[r].lista_email, FALSE))]]
    /\ UNCHANGED <<db, settings, tr>>

\* Lines 626-641: r.publish('notifications', json_data) with lista_us in the
\* payload.
CommentPublish(r) ==
    /\ cr[r].pc = "publish"
    /\ cr' = [cr EXCEPT ![r] =
                [@ EXCEPT !.pc = StageAfter("publish"),
                          !.log = Append(@, Effect("publish",
                                     cr[r].lista_us, <<>>, TRUE))]]
    /\ UNCHANGED <<db, settings, tr>>

\* Line 641: r.publish raises (broker unreachable).
CommentPublishFails(r) ==
    /\ cr[r].pc = "publish"
    /\ cr' = [cr EXCEPT ![r] =
                [@ EXCEPT !.pc = "done",
                          !.response = "error",
                          !.log = Append(@, Effect("publish",
                                     cr[r].lista_us, <<>>, FALSE))]]
    /\ UNCHANGED <<db, settings, tr>>

\* Lines 643-644: messages.success(request, "Added new comment") and the
\* redirect to the topic.
CommentRespond(r) ==
    /\ cr[r].pc = "respond"
    /\ cr' = [cr EXCEPT ![r] = [@ EXCEPT !.pc = "done", !.response = "added"]]
    /\ UNCHANGED <<db, settings, tr>>

\* ------------------------------- DeleteCommentView.post (687-704)
\* Lines 696-698: Comment.objects.filter(idcomment=..., user=iduser).delete()
CommentsAfterDelete(iduser, idcomment) ==
    SelectSeq(comments,
              LAMBDA c : ~(c.idcomment = idcomment /\ c.user = iduser))

\* Line 699: the filter of Notification.objects.filter(idobject=idcomment).
RowMatches(row, idcomment) == row.idobject = idcomment

NotificationsAfterDelete(idcomment) ==
    SelectSeq(notifications, LAMBDA n : ~RowMatches(n, idcomment))

\* Lines 694-702: both deletes succeed; "Comment deleted" and the redirect.
DeleteCommentView(iduser, idcomment) ==
    /\ Quiet
    /\ comments' = CommentsAfterDelete(iduser, idcomment)
    /\ notifications' = NotificationsAfterDelete(idcomment)
    /\ UNCHANGED <<topics, last_idcomment, settings, tr, cr>>

\* Lines 699 and 703-704: the Notification delete raises after the Comment
\* delete was done; the except clause redirects.
DeleteCommentNotificationsRaise(iduser, idcomment) ==
    /\ Quiet
    /\ comments' = CommentsAfterDelete(iduser, idcomment)
    /\ UNCHANGED <<topics, notifications, last_idcomment, settings, tr, cr>>

\* ------------- AllNotification.get (711-728), SetNotifications (731-738)
\* The update that marks every row viewed, whoever it belongs to.
MarkViewedAnyUser(row, iduser) == [row EXCEPT !.is_view = TRUE]

\* Lines 718 and 736: filter(iduser=iduser).update(is_view=True), on one row.
MarkViewed(row, iduser) ==
    IF row.iduser = iduser THEN [row EXCEPT !.is_view = TRUE] ELSE row

MarkAllViewed(iduser) ==
    /\ Quiet
    /\ notifications' = [i \in 1..Len(notifications) |->
                            MarkViewed(notifications[i], iduser)]
    /\ UNCHANGED <<topics, comments, last_idcomment, settings, tr, cr>>

\* Lines 715-728: the notification page marks the user's rows viewed.
AllNotificationGet(iduser) == MarkAllViewed(iduser)

\* Lines 735-738.
SetNotifications(iduser) == MarkAllViewed(iduser)

\* forum_tags.py 174-180: the count of the user's rows not yet viewed.
PendingIn(rows, user) ==
    Cardinality({i \in 1..Len(rows) :
                    ~rows[i].is_view /\ rows[i].iduser = user})

get_pending_notifications(user) == PendingIn(notifications, user)

\* ------------------------------------------------------ specification
\* The request handled when requests are served one at a time.
FirstRun == "first"

TopicStep ==
    \/ \E u \in Users, valid \in BOOLEAN, forum_found \in BOOLEAN :
           Quiet /\ TopicReceive(u, valid, forum_found)
    \/ TopicAlertModerator
    \/ TopicAlertFails
    \/ TopicSave
    \/ TopicSaveFails

CommentStep(r) ==
    \/ CommentSave(r)
    \/ CommentSaveFails(r)
    \/ CommentResolve(r)
    \/ CommentNotify(r)
    \/ CommentNotifyFails(r)
    \/ CommentNotifyEnd(r)
    \/ CommentMail(r)
    \/ CommentMailFails(r)
    \/ CommentPublish(r)
    \/ CommentPublishFails(r)
    \/ CommentRespond(r)

\* Topic creation on a forum of any configuration, one request at a time.
SpecTopic == Init /\ [][TopicStep]_vars

\* A forum without moderation that holds one topic, created by any user
\* (the state TopicSave leaves), and no comment yet.
InitComment ==
    /\ forum = [is_moderate |-> FALSE, moderators |-> {}]
    /\ email_from \in BOOLEAN
    /\ topics \in {<<[idtopic |-> 1, user |-> u, moderate |-> TRUE]>> :
                       u \in Users}
    /\ comments = <<>>
    /\ notifications = <<>>
    /\ last_idcomment = 0
    /\ tr = IdleTopicRun
    /\ cr = [r \in CRuns |-> IdleCommentRun]

\* Comment requests on that topic, served one at a time.
CommentNext ==
    \/ \E u \in Users, t \in UrlTopicIds, valid \in BOOLEAN :
           Quiet /\ CommentReceive(FirstRun, u, t, valid)
    \/ CommentStep(FirstRun)

SpecComment == InitComment /\ [][CommentNext]_vars

\* The topic of InitComment with no comment yet, or with one comment by any
\* user and the row its request wrote (one for the topic's author unless
\* the author is the poster).
InitConc ==
    /\ forum = [is_moderate |-> FALSE, moderators |-> {}]
    /\ email_from \in BOOLEAN
    /\ \E a \in Users :
          /\ topics = <<[idtopic |-> 1, user |-> a, moderate |-> TRUE]>>
          /\ \/ /\ comments = <<>>
                /\ notifications = <<>>
                /\ last_idcomment = 0
             \/ \E b \in Users :
                   /\ comments = <<[idcomment |-> 1, user |-> b, topic |-> 1]>>
                   /\ notifications = IF b = a THEN <<>>
                                      ELSE <<NotificationRow(a, 1)>>
                   /\ last_idcomment = 1
    /\ tr = IdleTopicRun
    /\ cr = [r \in CRuns |-> IdleCommentRun]

\* Two comment requests on that topic handled at once, one by each worker:
\* their steps interleave at every database call (no lock is held).
ConcNext ==
    \/ \E r \in CRuns, u \in Users, t \in UrlTopicIds, valid \in BOOLEAN :
           cr[r].pc = "idle" /\ CommentReceive(r, u, t, valid)
    \/ \E r \in CRuns : CommentStep(r)

SpecConc == InitConc /\ [][ConcNext]_vars

\* A Notification row whose idobject names a topic (is_topic), as read by
\* forum_tags.get_item_notification.
TopicNotificationRow(user, idtopic) ==
    [iduser |-> user, is_view |-> FALSE, idobject |-> idtopic,
     is_topic |-> TRUE, is_comment |-> FALSE]

\* The rows the tables below can hold, as created (not yet viewed): the
\* rows lines 602-609 write for comment 1 by a and comment 2 by b on the
\* topic of user 1 (none when the poster is the topic's author), and rows
\* of topic 1.
StoreRows(a, b) ==
    (IF a = 1 THEN {} ELSE {NotificationRow(1, 1)})
        \cup (IF b = 1 THEN {}
              ELSE {NotificationRow(u, 2) : u \in {a, 1} \ {b}})
        \cup {TopicNotificationRow(u, 1) : u \in Users}

\* One topic with two comments, by any two users, and up to MaxRows
\* Notification rows; no request in flight.
InitStore ==
    /\ forum = [is_moderate |-> FALSE, moderators |-> {}]
    /\ email_from = TRUE
    /\ topics = <<[idtopic |-> 1, user |-> 1, moderate |-> TRUE]>>
    /\ \E a \in Users, b \in Users :
          /\ comments = <<[idcomment |-> 1, user |-> a, topic |-> 1],
                          [idcomment |-> 2, user |-> b, topic |-> 1]>>
          /\ \E n \in 0..MaxRows :
                notifications \in [1..n -> StoreRows(a, b)]
    /\ last_idcomment = 2
    /\ tr = IdleTopicRun
    /\ cr = [r \in CRuns |-> IdleCommentRun]

\* Requests on the stored comments and notifications; idcomment ranges over
\* the identifiers handed out and one that names no comment.
StoreNext ==
    \/ \E u \in Users : AllNotificationGet(u)
    \/ \E u \in Users : SetNotifications(u)
    \/ \E u \in Users, c \in 1..(last_idcomment + 1) :
           DeleteCommentView(u, c)
    \/ \E u \in Users, c \in 1..(last_idcomment + 1) :
           DeleteCommentNotificationsRaise(u, c)

SpecStore == InitStore /\ [][StoreNext]_vars

\* ------------------------------------------------------------- claims
HasEffect(run, ev) == \E i \in 1..Len(run.log) : run.log[i].ev = ev

\* The request has passed the author-inclusion step (line 600).
Resolved(run) == HasEffect(run, "resolved")

\* The Notification rows of comment idc addressed to user u.
RowsOf(idc, u) ==
    {i \in 1..Len(notifications) :
        /\ notifications[i].idobject = idc
        /\ notifications[i].is_comment
        /\ notifications[i].iduser = u}

\* u commented on the request's topic before the request's own comment.
CommentedBefore(u, run) ==
    \E i \in 1..Len(comments) :
        /\ comments[i].topic = run.idtopic
        /\ comments[i].user = u
        /\ comments[i].idcomment < run.idcomment

Occurrences(x, lst) == Cardinality({i \in 1..Len(lst) : lst[i] = x})

NoDuplicates(lst) ==
    \A i, j \in 1..Len(lst) : lst[i] = lst[j] => i = j

\* C1: when the topic's author is the poster, the author-inclusion step
\* leaves both lists as they were: lista_us is the resolver's result and
\* lista_email is empty.
C1_AuthorPosterListsUntouched ==
    \A r \in CRuns :
        (Resolved(cr[r]) /\ cr[r].author = cr[r].poster) =>
            /\ cr[r].lista_us = get_users_topic(cr[r].idtopic, cr[r].poster)
            /\ cr[r].lista_email = <<>>

\* C2: after a comment-create that ended with the success response, every
\* user other than the poster who commented on the topic before has exactly
\* one Notification row (is_comment, not viewed) for the new comment.
C2_EveryPriorCommenterOneRow ==
    \A r \in CRuns :
        (cr[r].pc = "done" /\ cr[r].response = "added") =>
            \A u \in Users :
                (u # cr[r].poster /\ CommentedBefore(u, cr[r])) =>
                    /\ Cardinality(RowsOf(cr[r].idcomment, u)) = 1
                    /\ \A i \in RowsOf(cr[r].idcomment, u) :
                           ~notifications[i].is_view

\* C3: after the author-inclusion step, an author who had not commented
\* and is not the poster is in lista_us exactly once and lista_email holds
\* the author's address and nothing else; if the author had already
\* commented, lista_email is empty.
C3_AuthorInclusion ==
    \A r \in CRuns :
        Resolved(cr[r]) =>
            /\ (~CommentedBefore(cr[r].author, cr[r])
                    /\ cr[r].author # cr[r].poster) =>
                   /\ Occurrences(cr[r].author, cr[r].lista_us) = 1
                   /\ cr[r].lista_email = <<UserEmail(cr[r].author)>>
            /\ CommentedBefore(cr[r].author, cr[r]) =>
                   cr[r].lista_email = <<>>

\* C4: the list get_users_topic hands to the handler has no duplicate and
\* not the poster; no Notification row of a comment is addressed to that
\* comment's author, and no user has two rows for the same comment.
C4_NoDuplicateNoPoster ==
    /\ \A r \in CRuns :
          cr[r].pc = "resolve" =>
             LET lista == get_users_topic(cr[r].idtopic, cr[r].poster)
             IN NoDuplicates(lista) /\ ~InList(cr[r].poster, lista)
    /\ \A i \in 1..Len(notifications), c \in 1..Len(comments) :
          notifications[i].idobject = comments[c].idcomment =>
             notifications[i].iduser # comments[c].user
    /\ \A i, j \in 1..Len(notifications) :
          (notifications[i].idobject = notifications[j].idobject
             /\ notifications[i].iduser = notifications[j].iduser) => i = j

\* C4 witness: a request ended with success after a user other than the
\* poster had commented twice, and wrote rows for two recipients.
C4_Witness ==
    \E r \in CRuns :
        /\ cr[r].pc = "done" /\ cr[r].response = "added"
        /\ \E u \in Users :
              /\ u # cr[r].poster
              /\ Cardinality({i \in 1..Len(comments) :
                     comments[i].user = u
                       /\ comments[i].idcomment < cr[r].idcomment}) = 2
              /\ RowsOf(cr[r].idcomment, u) # {}
        /\ Cardinality({u \in Users : RowsOf(cr[r].idcomment, u) # {}}) >= 2

\* Some effect of the kind ev in the request's log raised.
Failed(run, ev) ==
    \E i \in 1..Len(run.log) : run.log[i].ev = ev /\ ~run.log[i].ok

\* C5: a comment-create whose publish call raised still ends with the
\* success response, and the rows it wrote are still in the table.
C5_PublishFailureContained ==
    \A r \in CRuns :
        (cr[r].pc = "done" /\ Failed(cr[r], "publish")) =>
            /\ cr[r].response = "added"
            /\ \A i \in 1..Len(cr[r].log) :
                  (cr[r].log[i].ev = "row" /\ cr[r].log[i].ok) =>
                      RowsOf(cr[r].idcomment, cr[r].log[i].ids[1]) # {}

\* C6: a topic-create in which an e-mail to a moderator raised still
\* persists the topic, with moderate = false, and ends with the success
\* response.
C6_ModeratorMailNeverBlocks ==
    (tr.pc = "done" /\ Failed(tr, "mail")) =>
        /\ tr.response = "created"
        /\ \E i \in 1..Len(topics) :
              topics[i].user = tr.user /\ ~topics[i].moderate

\* C7: a finished topic-create that had moderators to alert has attempted
\* an e-mail to every moderator of the forum, whether or not one failed.
C7_EveryModeratorAttempted ==
    (tr.pc = "done" /\ HasEffect(tr, "decided") /\ ~tr.moderate
        /\ email_from) =>
        \A m \in forum.moderators :
            \E i \in 1..Len(tr.log) :
                /\ tr.log[i].ev = "mail"
                /\ tr.log[i].to = <<UserEmail(m)>>

\* C8: a comment-create whose e-mail send raised has still published the
\* event and ends with the success response.
C8_MailFailureContained ==
    \A r \in CRuns :
        (cr[r].pc = "done" /\ Failed(cr[r], "mail")) =>
            /\ \E i \in 1..Len(cr[r].log) :
                  cr[r].log[i].ev = "publish" /\ cr[r].log[i].ok
            /\ cr[r].response = "added"

\* C9: a finished comment-create in which one Notification write raised
\* has attempted the write for every recipient, the publish, and the
\* e-mail when there is one to send.
C9_RowFailureContained ==
    \A r \in CRuns :
        (cr[r].pc = "done" /\ Failed(cr[r], "row")) =>
            /\ \A k \in 1..Len(cr[r].lista_us) :
                  \E i \in 1..Len(cr[r].log) :
                      /\ cr[r].log[i].ev = "row"
                      /\ cr[r].log[i].ids = <<cr[r].lista_us[k]>>
            /\ HasEffect(cr[r], "publish")
            /\ MailAttempted(cr[r]) => HasEffect(cr[r], "mail")

\* The place of an effect in the order the specification gives
\* (publish before e-mail) and in the order of the handler's code
\* (e-mail before publish).
RankPublishFirst(ev) ==
    CASE ev = "persisted" -> 1
      [] ev = "resolved" -> 2
      [] ev = "row" -> 3
      [] ev = "publish" -> 4
      [] ev = "mail" -> 5

RankMailFirst(ev) ==
    CASE ev = "persisted" -> 1
      [] ev = "resolved" -> 2
      [] ev = "row" -> 3
      [] ev = "mail" -> 4
      [] ev = "publish" -> 5

\* No row exists for a comment that is not persisted, and a request's
\* first effect is the persisted comment.
PersistedFirst ==
    /\ \A i \in 1..Len(notifications) :
          \E c \in 1..Len(comments) :
              comments[c].idcomment = notifications[i].idobject
    /\ \A r \in CRuns :
          cr[r].log # <<>> => cr[r].log[1].ev = "persisted"

C11_NoMailBeforeTopicPersisted ==
    \A i \in 1..Len(tr.log) :
        tr.log[i].ev = "mail" =>
            \E j \in 1..(i - 1) : tr.log[j].ev = "persisted"

\* The e-mails the topic-create request attempted.
TopicMails == {i \in 1..Len(tr.log) : tr.log[i].ev = "mail"}

\* C12: a topic-create that persisted its topic stored moderate = true
\* exactly when the forum is not moderated or the author is one of its
\* moderators; a request that decided moderate = true attempts no e-mail;
\* one that persisted with moderate = false and a sender address attempted
\* exactly one e-mail per moderator of the forum.
C12_ModerationTable ==
    /\ tr.response = "created" =>
          /\ topics[Len(topics)].user = tr.user
          /\ topics[Len(topics)].moderate
                <=> (~forum.is_moderate \/ tr.user \in forum.moderators)
          /\ tr.moderate = topics[Len(topics)].moderate
    /\ (HasEffect(tr, "decided") /\ tr.moderate) => TopicMails = {}
    /\ (tr.response = "created" /\ ~tr.moderate /\ email_from) =>
          /\ Cardinality(TopicMails) = Cardinality(forum.moderators)
          /\ \A m \in forum.moderators :
                Cardinality({i \in TopicMails :
                    tr.log[i].to = <<UserEmail(m)>>}) = 1

\* C12 witness: a topic held for moderation was persisted after an e-mail
\* to each of two moderators.
C12_Witness ==
    /\ tr.response = "created"
    /\ ~topics[Len(topics)].moderate
    /\ Cardinality(forum.moderators) = 2
    /\ Cardinality(TopicMails) = 2

NotPersisted(run) ==
    /\ run.pc = "done"
    /\ run.response \in {"not_found", "error"}
    /\ ~HasEffect(run, "persisted")

\* A request that did not persist its comment has no side effect: no row,
\* no publish, no e-mail.
AbortBeforeSideEffects ==
    \A r \in CRuns :
        NotPersisted(cr[r]) =>
            /\ cr[r].log = <<>>
            /\ \A i \in 1..Len(notifications) :
                  notifications[i].idobject <= last_idcomment

\* C16: a comment-create aborts only when the comment is not persisted
\* (topic missing or obj.save() raising), and then without any side effect.
C16_OnlyPersistFailureAborts ==
    /\ AbortBeforeSideEffects
    /\ \A r \in CRuns :
          (cr[r].pc = "done" /\ cr[r].response = "error") =>
              NotPersisted(cr[r])

\* The users for whom the request's event wrote a Notification row.
RowRecipients(run) == {u \in Users : RowsOf(run.idcomment, u) # {}}

\* C18: the lista_us of a published payload is exactly the set of users
\* for whom the event wrote a Notification row, and never holds the poster.
C18_PayloadMatchesRows ==
    \A r \in CRuns :
        \A i \in 1..Len(cr[r].log) :
            cr[r].log[i].ev = "publish" =>
                /\ {cr[r].log[i].ids[k] : k \in 1..Len(cr[r].log[i].ids)}
                      = RowRecipients(cr[r])
                /\ ~InList(cr[r].poster, cr[r].log[i].ids)

\* The row is a comment's row and refers to idcomment.
RowMatchesComment(row, idcomment) ==
    row.idobject = idcomment /\ row.is_comment

\* The comment idcomment exists and iduser is its author.
IsAuthorOf(iduser, idcomment) ==
    \E i \in 1..Len(comments) :
        comments[i].idcomment = idcomment /\ comments[i].user = iduser

\* C14: a delete-comment request by the comment's author removes exactly
\* the Notification rows that refer to that comment; every other row stays,
\* also an is_topic row whose idobject has the same value.
C14_DeleteRemovesOnlyCommentRows ==
    [][\A u \in Users, c \in 1..(last_idcomment + 1) :
          (DeleteCommentView(u, c) /\ IsAuthorOf(u, c)) =>
              /\ ~IsAuthorOf(u, c)'
              /\ notifications' =
                    SelectSeq(notifications,
                              LAMBDA n : ~RowMatchesComment(n, c))]_vars

\* C17: a delete-comment request by a user who is not the author of the
\* named comment, or naming no comment, changes neither table.
C17_ForeignDeleteChangesNothing ==
    [][\A u \in Users, c \in 1..(last_idcomment + 1) :
          (DeleteCommentView(u, c) /\ ~IsAuthorOf(u, c)) =>
              /\ comments' = comments
              /\ notifications' = notifications]_vars

\* The table rows after every row of user is marked viewed.
TableMarkedFor(rows, user) ==
    [i \in 1..Len(rows) |->
        IF rows[i].iduser = user THEN [rows[i] EXCEPT !.is_view = TRUE]
        ELSE rows[i]]

\* C15: right after mark-all-viewed for a user the user's pending count
\* is 0; the call changes only is_view and only on that user's rows; and
\* a call made when the user has nothing pending changes nothing.
C15_MarkAllViewedThenCountZero ==
    [][\A u \in Users :
          (AllNotificationGet(u) \/ SetNotifications(u)) =>
              /\ PendingIn(notifications', u) = 0
              /\ notifications' = TableMarkedFor(notifications, u)
              /\ get_pending_notifications(u) = 0 =>
                    notifications' = notifications]_vars

\* C15 witness: mark-all-viewed has acted for a user (the user's row is
\* viewed now; rows are created unviewed) while another user's row is
\* still pending.
C15_Witness ==
    \E u \in Users :
        /\ Cardinality({i \in 1..Len(notifications) :
               notifications[i].iduser = u /\ notifications[i].is_view}) = 1
        /\ get_pending_notifications(u) = 0
        /\ \E v \in Users \ {u} : get_pending_notifications(v) > 0

\* The recipients of the request's rows when requests are served one at a
\* time in the order of their saves: the users who commented on the topic
\* before the request's comment, without the poster, and the topic's author.
SerialRecipients(run) ==
    ({u \in Users : CommentedBefore(u, run)} \ {run.poster})
        \cup {run.author}

\* C19: under every interleaving of two comment-create runs, a run that
\* answers "Added new comment" and whose poster is not the topic's author
\* has written exactly one row for the author, at most one row per
\* recipient and none for its poster; the other run changes nothing in the
\* rows it writes (only whether the author's email is in its email list).
C19_RaceChangesOnlyAuthorEmail ==
    \A r \in CRuns :
        (cr[r].response = "added" /\ cr[r].poster # cr[r].author) =>
            /\ Cardinality(RowsOf(cr[r].idcomment, cr[r].author)) = 1
            /\ \A u \in Users : Cardinality(RowsOf(cr[r].idcomment, u)) <= 1
            /\ RowsOf(cr[r].idcomment, cr[r].poster) = {}
            /\ RowRecipients(cr[r]) = SerialRecipients(cr[r])

\* The part of C19 about the author's row, duplicates and the poster.
C19_RowsPerRecipient ==
    \A r \in CRuns :
        (cr[r].response = "added" /\ cr[r].poster # cr[r].author) =>
            /\ Cardinality(RowsOf(cr[r].idcomment, cr[r].author)) = 1
            /\ \A u \in Users : Cardinality(RowsOf(cr[r].idcomment, u)) <= 1
            /\ RowsOf(cr[r].idcomment, cr[r].poster) = {}

====
